---- MODULE Spec2Model ----
(***************************************************************************)
(* A model of ui.py: the LinkedIn URL-to-ID conversion, the profile        *)
(* scraper, the CV text extraction, the summary request and the Streamlit  *)
(* page (session state, Process / Reset / chat handlers).                  *)
(*                                                                         *)
(* Python strings are sequences of pieces.  In URLs every piece is one     *)
(* character, so that the regular expression of convert_linkedin_url_to_id *)
(* is applied character by character.  Elsewhere a piece is a run of       *)
(* characters that the program never splits; `"Error" in s` holds when a   *)
(* piece of s spells the word (ErrorPieces).  None is the one-piece        *)
(* sequence None, which no string of the model equals.                     *)
(***************************************************************************)
EXTENDS Integers, Sequences, FiniteSets, TLC

----------------------------------------------------------------------------
(* Bounds of the model *)

MaxSlugLen == 2
MaxSkills == 2
MaxPages == 3
MaxPageLen == 1
MaxTurns == 2

----------------------------------------------------------------------------
(* Python values *)

None == <<"<None>">>
EmptyStr == <<>>

\* Python truth value of a str | None (ui.py: `if not profile_url`, `if cv_text`)
Truthy(s) == s # None /\ s # EmptyStr

StartsWith(s, p) == Len(s) >= Len(p) /\ SubSeq(s, 1, Len(p)) = p

\* str.endswith('/')
EndsWithSlash(s) == Len(s) > 0 /\ s[Len(s)] = "/"

Drop(s, n) == SubSeq(s, n + 1, Len(s))

Whitespace == {" ", "\n"}

RECURSIVE LStrip(_)
LStrip(s) == IF s # <<>> /\ s[1] \in Whitespace THEN LStrip(Tail(s)) ELSE s

RECURSIVE RStrip(_)
RStrip(s) ==
    IF s # <<>> /\ s[Len(s)] \in Whitespace THEN RStrip(SubSeq(s, 1, Len(s) - 1)) ELSE s

\* str.strip()
Strip(s) == RStrip(LStrip(s))

\* the pieces that spell the word Error
ErrorPieces ==
    { "Error", "Error: ", "Error reading PDF: ", "Error fetching LinkedIn data: ",
      "Error: Gemini API key not provided.", "Error configuring Gemini: ",
      "Error generating summary with Gemini: ", "Error: API object is None.",
      "Error: Could not extract profile ID from URL.",
      "Error: No data returned for profile.",
      "Error: Profile data is not a dictionary." }

\* `"Error" in s`
ContainsError(s) == \E i \in 1..Len(s) : s[i] \in ErrorPieces

\* `"Error reading PDF" in s`
ContainsErrorReadingPDF(s) == \E i \in 1..Len(s) : s[i] = "Error reading PDF: "

\* the text of a raised exception, as f"{e}" renders it
ExcText == <<"<exception>">>

----------------------------------------------------------------------------
(* convert_linkedin_url_to_id *)

HTTP == <<"h", "t", "t", "p", ":", "/", "/">>
HTTPS == <<"h", "t", "t", "p", "s", ":", "/", "/">>
WWW == <<"w", "w", "w", ".">>
LINKEDIN_IN == <<"l", "i", "n", "k", "e", "d", "i", "n", ".", "c", "o", "m", "/", "i", "n", "/">>

\* the strings r"^(https?://)?(www\.)?linkedin\.com/in/" matches
PrefixPattern ==
    { scheme \o www \o LINKEDIN_IN : scheme \in {<<>>, HTTP, HTTPS}, www \in {<<>>, WWW} }

\* re.sub(r"^(https?://)?(www\.)?linkedin\.com/in/", "", s): the pattern is
\* anchored, so at most the one match at the start of s is replaced by "".
ReSubPrefix(s) ==
    IF \E p \in PrefixPattern : StartsWith(s, p)
    THEN LET p == CHOOSE q \in PrefixPattern : StartsWith(s, q) IN Drop(s, Len(p))
    ELSE s

\* the conversion without the removal of the trailing slash
convert_keeps_trailing_slash(profile_url) ==
    IF ~Truthy(profile_url) THEN EmptyStr ELSE ReSubPrefix(profile_url)

convert_linkedin_url_to_id(profile_url) ==
    IF ~Truthy(profile_url)
    THEN EmptyStr
    ELSE LET stripped == ReSubPrefix(profile_url) IN
         IF EndsWithSlash(stripped)
         THEN SubSeq(stripped, 1, Len(stripped) - 1)
         ELSE stripped

----------------------------------------------------------------------------
(* linkedin_scrapper *)

\* A profile as api.get_profile returns it.  kind "dict" is a dictionary whose
\* keys are `has` (of the four the scraper reads) plus, when `extra`, keys the
\* scraper does not read; the fields hold the values of the keys in `has`.
\* An item of the skills list is a dictionary with or without a 'name', or a
\* str, which has no .get; Str(text) is the str item.
Str(text) == [is_dict |-> FALSE, has_name |-> FALSE, name |-> text]

SkillItems ==
    { [is_dict |-> TRUE, has_name |-> TRUE, name |-> "python"],
      [is_dict |-> TRUE, has_name |-> TRUE, name |-> "sql"],
      [is_dict |-> TRUE, has_name |-> FALSE, name |-> ""],
      Str("python") }

SeqsUpTo(S, n) == UNION { [1..k -> S] : k \in 0..n }

ProfileKeys == {"headline", "summary", "skills", "certifications"}

NoProfile == [kind |-> "none", has |-> {}, extra |-> FALSE, headline |-> <<>>,
              summary |-> <<>>, skills |-> <<>>, certifications |-> <<>>]

IsDict(p) == p.kind = "dict"

\* Python truth value of the returned profile (`if not profile_data`)
ProfileTruthy(p) ==
    CASE p.kind = "none" -> FALSE
      [] p.kind = "dict" -> p.has # {} \/ p.extra
      [] OTHER -> TRUE

\* profile_data.get(key, default)
DictGet(p, key, default) ==
    IF key \in p.has
    THEN CASE key = "headline" -> p.headline
           [] key = "summary" -> p.summary
           [] key = "skills" -> p.skills
           [] key = "certifications" -> p.certifications
    ELSE default

\* skill.get('name', 'N/A')
SkillName(skill) == IF skill.has_name THEN skill.name ELSE "N/A"

\* [skill.get('name', 'N/A') for skill in profile_data.get('skills', [])]
SkillNames(skills) == [i \in 1..Len(skills) |-> Str(SkillName(skills[i]))]

\* the comprehension raises AttributeError on a skill that is no dictionary
SkillsRaise(skills) == \E i \in 1..Len(skills) : ~skills[i].is_dict

Failure(status, text) == [status |-> status, data |-> text, get_profile_calls |-> 0]

\* the part of linkedin_scrapper after get_profile has returned `p`
\* (or raised, p.kind = "raises")
AfterGetProfile(p) ==
    CASE p.kind = "raises" ->
           [status |-> "Scraping Error", data |-> <<"Error: ">> \o ExcText]
      [] p.kind # "raises" /\ ~ProfileTruthy(p) ->
           [status |-> "Profile does not exist or is private",
            data |-> <<"Error: No data returned for profile.">>]
      [] p.kind # "raises" /\ ProfileTruthy(p) /\ ~IsDict(p) ->
           [status |-> "Unexpected Profile Data Format",
            data |-> <<"Error: Profile data is not a dictionary.">>]
      [] OTHER ->
           IF SkillsRaise(DictGet(p, "skills", <<>>))
           THEN [status |-> "Scraping Error", data |-> <<"Error: ">> \o ExcText]
           ELSE [status |-> "Success",
                 data |-> << <<"headline", DictGet(p, "headline", <<"N/A">>)>>,
                             <<"summary", DictGet(p, "summary", <<"N/A">>)>>,
                             <<"skills", SkillNames(DictGet(p, "skills", <<>>))>>,
                             <<"certifications", DictGet(p, "certifications", <<>>)>> >>]

\* the scraper without the check of the extracted profile ID
scrapper_without_id_check(login, profile_url, p) ==
    IF login = "raises"
    THEN Failure("Incorrect Credentials or Login Issue", <<"Error: ">> \o ExcText)
    ELSE AfterGetProfile(p) @@ [get_profile_calls |-> 1]

\* the scraper passing the skill dictionaries on instead of their names
scrapper_raw_skills(login, profile_url, p) ==
    IF login = "raises"
    THEN Failure("Incorrect Credentials or Login Issue", <<"Error: ">> \o ExcText)
    ELSE IF ~Truthy(convert_linkedin_url_to_id(profile_url))
    THEN Failure("Invalid Profile URL", <<"Error: Could not extract profile ID from URL.">>)
    ELSE LET r == AfterGetProfile(p) IN
         IF r.status = "Success"
         THEN [status |-> "Success",
               data |-> [r.data EXCEPT ![3] = <<"skills", DictGet(p, "skills", <<>>)>>],
               get_profile_calls |-> 1]
         ELSE r @@ [get_profile_calls |-> 1]

\* linkedin_scrapper(user_email, user_password, profile_url), given what the
\* two external calls do: `login` is the outcome of Linkedin(...) ("ok",
\* "raises", or "falsy" for an object that tests false) and `p` the outcome of
\* api.get_profile.  get_profile_calls counts the calls of get_profile.
linkedin_scrapper(login, profile_url, p) ==
    IF login = "raises"
    THEN Failure("Incorrect Credentials or Login Issue", <<"Error: ">> \o ExcText)
    ELSE IF login = "falsy"
    THEN Failure("LinkedIn API not initialized", <<"Error: API object is None.">>)
    ELSE IF ~Truthy(convert_linkedin_url_to_id(profile_url))
    THEN Failure("Invalid Profile URL", <<"Error: Could not extract profile ID from URL.">>)
    ELSE AfterGetProfile(p) @@ [get_profile_calls |-> 1]

----------------------------------------------------------------------------
(* extract_text_from_cv *)

\* An uploaded file: kind "pdf" opens and every page gives its text; kind
\* "notpdf" makes pymupdf.open raise; kind "damaged" opens and raises while a
\* page is read.  NoFile is the uploader holding nothing (uploaded_file None).
NoFile == [kind |-> "nofile", pages |-> <<>>]
NotPdf == [kind |-> "notpdf", pages |-> <<>>]
DamagedPdf == [kind |-> "damaged", pages |-> <<>>]
Pdf(pages) == [kind |-> "pdf", pages |-> pages]

\* "\n".join(full_text)
RECURSIVE JoinNewline(_)
JoinNewline(texts) ==
    IF texts = <<>> THEN EmptyStr
    ELSE IF Len(texts) = 1 THEN texts[1]
    ELSE texts[1] \o <<"\n">> \o JoinNewline(Tail(texts))

\* a join that ends every page with a newline
RECURSIVE JoinNewlineAfterEach(_)
JoinNewlineAfterEach(texts) ==
    IF texts = <<>> THEN EmptyStr
    ELSE texts[1] \o <<"\n">> \o JoinNewlineAfterEach(Tail(texts))

extract_newline_after_each(uploaded_file) ==
    CASE uploaded_file.kind = "nofile" -> None
      [] uploaded_file.kind = "pdf" -> JoinNewlineAfterEach(uploaded_file.pages)
      [] OTHER -> <<"Error reading PDF: ">> \o ExcText

extract_text_from_cv(uploaded_file) ==
    CASE uploaded_file.kind = "nofile" -> None
      [] uploaded_file.kind = "pdf" -> JoinNewline(uploaded_file.pages)
      [] OTHER -> <<"Error reading PDF: ">> \o ExcText

----------------------------------------------------------------------------
(* summarise_linkedin_and_cv *)

INSTRUCTION == "Please provide a concise summary of the candidate based on the following information."
CV_HEADER == "\n\n--- CV Data ---\n"
LINKEDIN_HEADER == "\n\n--- LinkedIn Data ---\n"
NO_DATA == <<"No CV or LinkedIn data provided to summarize.">>

\* `if cv_text and cv_text.strip()`
CvIncluded(cv) == Truthy(cv) /\ Strip(cv) # EmptyStr

\* `if linkedin_data_str and linkedin_data_str.strip() and linkedin_data_str != "Error"`
LinkedinIncluded(lds) == Truthy(lds) /\ Strip(lds) # EmptyStr /\ lds # <<"Error">>

\* "".join(prompt_parts)
Prompt(cv, lds) ==
    <<INSTRUCTION>>
    \o (IF CvIncluded(cv) THEN <<CV_HEADER>> \o cv ELSE <<>>)
    \o (IF LinkedinIncluded(lds) THEN <<LINKEDIN_HEADER>> \o lds ELSE <<>>)

Summary(text, prompt, n) == [text |-> text, prompt |-> prompt, generate_content_calls |-> n]

\* a summary step that asks generate_content a second time when it raises
summarise_retries_on_failure(api_key_gemini, cv, lds, configure, generate) ==
    IF ~Truthy(api_key_gemini)
    THEN Summary(<<"Error: Gemini API key not provided.">>, None, 0)
    ELSE IF configure = "raises"
    THEN Summary(<<"Error configuring Gemini: ">> \o ExcText, None, 0)
    ELSE IF ~CvIncluded(cv) /\ ~LinkedinIncluded(lds)
    THEN Summary(NO_DATA, None, 0)
    ELSE IF generate = <<"raises">>
    THEN Summary(<<"Error generating summary with Gemini: ">> \o ExcText, Prompt(cv, lds), 2)
    ELSE Summary(generate, Prompt(cv, lds), 1)

\* summarise_linkedin_and_cv(api_key_gemini, cv_text, linkedin_data_str), given
\* what the external calls do: `configure` is "ok" or "raises" (genai.configure
\* and GenerativeModel), `generate` is "raises" or the response text of
\* model.generate_content.  prompt is the prompt sent (None when none is sent).
summarise_linkedin_and_cv(api_key_gemini, cv, lds, configure, generate) ==
    IF ~Truthy(api_key_gemini)
    THEN Summary(<<"Error: Gemini API key not provided.">>, None, 0)
    ELSE IF configure = "raises"
    THEN Summary(<<"Error configuring Gemini: ">> \o ExcText, None, 0)
    ELSE IF ~CvIncluded(cv) /\ ~LinkedinIncluded(lds)
    THEN Summary(NO_DATA, None, 0)
    ELSE IF generate = <<"raises">>
    THEN Summary(<<"Error generating summary with Gemini: ">> \o ExcText, Prompt(cv, lds), 1)
    ELSE Summary(generate, Prompt(cv, lds), 1)

----------------------------------------------------------------------------
(* str(linkedin_result) *)

RECURSIVE JoinComma(_)
JoinComma(parts) ==
    IF parts = <<>> THEN <<>>
    ELSE IF Len(parts) = 1 THEN parts[1]
    ELSE parts[1] \o <<", ">> \o JoinComma(Tail(parts))

\* repr of a str
ReprStr(x) == <<"'">> \o x \o <<"'">>

\* repr of a list of one-piece strings
ReprList(xs) == <<"[">> \o JoinComma([i \in 1..Len(xs) |-> ReprStr(<<xs[i]>>)]) \o <<"]">>

\* the texts of a list of str items
Texts(items) == [i \in 1..Len(items) |-> items[i].name]

\* str(temp) for the list of four pairs that linkedin_scrapper returns
PyStr(temp) ==
    <<"[">>
    \o JoinComma(<< <<"('headline', ">> \o ReprStr(temp[1][2]) \o <<")">>,
                    <<"('summary', ">> \o ReprStr(temp[2][2]) \o <<")">>,
                    <<"('skills', ">> \o ReprList(Texts(temp[3][2])) \o <<")">>,
                    <<"('certifications', ">> \o ReprList(temp[4][2]) \o <<")">> >>)
    \o <<"]">>

----------------------------------------------------------------------------
(* The Streamlit page: session state and the widgets that keep their value *)

VARIABLES
    gemini_api_key, linkedin_email, linkedin_password, linkedin_url,
    cv_text, linkedin_data_str, initial_answers_str, combined_summary,
    interview_started, messages, gemini_chat, data_processed,
    initial_answers_dict,
    uploaded_cv,      \* the file the st.file_uploader widget holds
    last,             \* the interaction that triggered the last page run
    prompt,           \* prompt sent to generate_content in the last page run
    calls,            \* external calls made in the last page run
    \* calls of the functions on their own
    url_in, url_id, login_in, profile_in, scr_ret, pdf_in, pdf_ret

session ==
    <<gemini_api_key, linkedin_email, linkedin_password, linkedin_url,
      cv_text, linkedin_data_str, initial_answers_str, combined_summary,
      interview_started, messages, gemini_chat, data_processed,
      initial_answers_dict, uploaded_cv, last, prompt, calls>>

harness == <<url_in, url_id, login_in, profile_in, scr_ret, pdf_in, pdf_ret>>

vars == <<session, harness>>

NumQuestions == 5

GREETING ==
    <<"Okay, I understand. Let's warm up with something simple, but important: Tell me about yourself.">>

NoCalls == [linkedin_login |-> 0, get_profile |-> 0, generate_content |-> 0, send_message |-> 0]

\* {q: "" for q in q_prompts}
EmptyAnswers == [i \in 1..NumQuestions |-> EmptyStr]

\* `if "<key>" not in st.session_state:` for every key, at the first run
InitSession ==
    /\ gemini_api_key = EmptyStr
    /\ linkedin_email = EmptyStr
    /\ linkedin_password = EmptyStr
    /\ linkedin_url = EmptyStr
    /\ cv_text = None
    /\ linkedin_data_str = None
    /\ initial_answers_str = EmptyStr
    /\ combined_summary = EmptyStr
    /\ interview_started = FALSE
    /\ messages = <<>>
    /\ gemini_chat = "None"
    /\ data_processed = FALSE
    /\ initial_answers_dict = EmptyAnswers
    /\ uploaded_cv = NoFile
    /\ last = "start"
    /\ prompt = None
    /\ calls = NoCalls

NotRun == <<"<not run>">>
ScrNotRun == [status |-> "<not run>", data |-> <<>>, get_profile_calls |-> 0]

IdleHarness ==
    /\ url_in = [form |-> "idle", slug |-> <<>>, url |-> None]
    /\ url_id = NotRun
    /\ login_in = "ok"
    /\ profile_in = NoProfile
    /\ scr_ret = ScrNotRun
    /\ pdf_in = NoFile
    /\ pdf_ret = NotRun

Init == InitSession /\ IdleHarness

\* what the user types and uploads
ApiKeys == {EmptyStr, <<"key">>}
Emails == {EmptyStr, <<"me@example.com">>}
Passwords == {EmptyStr, <<"secret">>}
GoodUrl == HTTPS \o WWW \o LINKEDIN_IN \o <<"a", "/">>
PageUrls == {EmptyStr, HTTPS \o WWW \o LINKEDIN_IN, GoodUrl}
PageFiles == {NoFile, NotPdf, Pdf(<<>>), Pdf(<< <<"cv">> >>)}
AnswerTexts == {EmptyStr, <<" ">>, <<" ", "answer">>}
AnsweredQuestions == {1}
ChatTexts == {<<"hello">>}

\* what the external services do
LoginOutcomes == {"ok", "raises"}
SampleProfile ==
    [kind |-> "dict", has |-> {"headline", "skills"}, extra |-> TRUE,
     headline |-> <<"Engineer">>, summary |-> <<>>,
     skills |-> <<[is_dict |-> TRUE, has_name |-> TRUE, name |-> "python"]>>,
     certifications |-> <<>>]
PageProfiles == {NoProfile, [NoProfile EXCEPT !.kind = "raises"], SampleProfile}
ConfigureOutcomes == {"ok", "raises"}
GenerateOutcomes == {<<"raises">>, <<"A summary.">>, <<"A summary of ", "Error", " handling.">>}
ChatInitOutcomes == {"ok", "raises"}
SendOutcomes == {<<"raises">>, <<"A reply.">>}

\* lines 244-252, run at every page run: the uploader keeps its file, and the
\* text is extracted whenever the session holds no (truthy) cv_text
CvAfterUpload(cv, file) ==
    IF file.kind # "nofile" /\ ~Truthy(cv) THEN extract_text_from_cv(file) ELSE cv

\* a page run that the edit of one input widget triggers: no handler runs
InputRun(file) ==
    /\ cv_text' = CvAfterUpload(cv_text, file)
    /\ last' = "input"
    /\ prompt' = None
    /\ calls' = NoCalls
    /\ UNCHANGED <<linkedin_data_str, initial_answers_str, combined_summary,
                   interview_started, messages, gemini_chat, data_processed, harness>>

EditApiKey ==
    \E k \in ApiKeys :
        /\ gemini_api_key' = k
        /\ InputRun(uploaded_cv)
        /\ UNCHANGED <<linkedin_email, linkedin_password, linkedin_url,
                       initial_answers_dict, uploaded_cv>>

EditEmail ==
    \E e \in Emails :
        /\ linkedin_email' = e
        /\ InputRun(uploaded_cv)
        /\ UNCHANGED <<gemini_api_key, linkedin_password, linkedin_url,
                       initial_answers_dict, uploaded_cv>>

EditPassword ==
    \E pw \in Passwords :
        /\ linkedin_password' = pw
        /\ InputRun(uploaded_cv)
        /\ UNCHANGED <<gemini_api_key, linkedin_email, linkedin_url,
                       initial_answers_dict, uploaded_cv>>

EditUrl ==
    \E u \in PageUrls :
        /\ linkedin_url' = u
        /\ InputRun(uploaded_cv)
        /\ UNCHANGED <<gemini_api_key, linkedin_email, linkedin_password,
                       initial_answers_dict, uploaded_cv>>

UploadCv ==
    \E f \in PageFiles :
        /\ uploaded_cv' = f
        /\ InputRun(f)
        /\ UNCHANGED <<gemini_api_key, linkedin_email, linkedin_password, linkedin_url,
                       initial_answers_dict>>

EditAnswer ==
    \E i \in AnsweredQuestions, a \in AnswerTexts :
        /\ initial_answers_dict' = [initial_answers_dict EXCEPT ![i] = a]
        /\ InputRun(uploaded_cv)
        /\ UNCHANGED <<gemini_api_key, linkedin_email, linkedin_password, linkedin_url,
                       uploaded_cv>>

----------------------------------------------------------------------------
(* The Process button *)

\* q_prompts[i]
QuestionText(i) ==
    CASE i = 1 -> "1. What's your current role, and how long have you been doing it?"
      [] i = 2 -> "2. What's got you preparing for interviews right now?"
      [] i = 3 -> "3. Where are you in your interview process?"
      [] i = 4 -> "4. Any particular role or company you've got your eye on?"
      [] OTHER -> "5. If we could fast-forward a few weeks - what do you wish felt easier?"

\* answers_list, for the questions from i on
RECURSIVE AnswersList(_, _)
AnswersList(dict, i) ==
    IF i > NumQuestions THEN <<>>
    ELSE (IF Strip(dict[i]) # EmptyStr
          THEN << <<"Q: ", QuestionText(i), "\nA: ">> \o Strip(dict[i]) >>
          ELSE <<>>)
         \o AnswersList(dict, i + 1)

\* "\n\n".join(answers_list)
RECURSIVE JoinBlank(_)
JoinBlank(parts) ==
    IF parts = <<>> THEN <<>>
    ELSE IF Len(parts) = 1 THEN parts[1]
    ELSE parts[1] \o <<"\n\n">> \o JoinBlank(Tail(parts))

\* lines 302-308
FormatAnswers(dict) ==
    LET joined == JoinBlank(AnswersList(dict, 1)) IN
    IF joined = EmptyStr
    THEN <<"User did not provide answers to initial questions.">>
    ELSE joined

\* a check of the summary that lets every summary pass
SummaryAlwaysGood(summary) == TRUE

\* `"Error" not in st.session_state.combined_summary`
SummaryIsGood(summary) == ~ContainsError(summary)

\* lines 284-299: the LinkedIn step, r being what linkedin_scrapper returns
LinkedinDataStr(url, email, password, r) ==
    IF Truthy(url) /\ Truthy(email) /\ Truthy(password)
    THEN IF r.status = "Success"
         THEN PyStr(r.data)
         ELSE <<"Error fetching LinkedIn data: ">> \o r.data
    ELSE <<"Not provided.">>

\* line 284, under the check of the API key at line 279
ScrapeAttempted ==
    /\ Truthy(gemini_api_key)
    /\ Truthy(linkedin_url) /\ Truthy(linkedin_email) /\ Truthy(linkedin_password)

\* the outcomes of an external service that the run consults; one that it
\* does not consult has no say
Consulted(asked, outcomes) == IF asked THEN outcomes ELSE {CHOOSE o \in outcomes : TRUE}

ClickProcess ==
    /\ ~data_processed      \* st.button(..., disabled=st.session_state.data_processed)
    /\ \E login \in Consulted(ScrapeAttempted, LoginOutcomes),
          p \in Consulted(ScrapeAttempted, PageProfiles),
          configure \in Consulted(Truthy(gemini_api_key), ConfigureOutcomes),
          generate \in Consulted(Truthy(gemini_api_key), GenerateOutcomes),
          chat_init \in Consulted(Truthy(gemini_api_key), ChatInitOutcomes) :
        LET cv == CvAfterUpload(cv_text, uploaded_cv)
            scraped == ScrapeAttempted
            r == linkedin_scrapper(login, linkedin_url, p)
            lds == LinkedinDataStr(linkedin_url, linkedin_email, linkedin_password, r)
            sm == summarise_linkedin_and_cv(gemini_api_key, cv, lds, configure, generate)
        IN
        /\ cv_text' = cv
        /\ last' = "process"
        /\ UNCHANGED <<gemini_api_key, linkedin_email, linkedin_password, linkedin_url,
                       initial_answers_dict, uploaded_cv, harness>>
        /\ IF ~Truthy(gemini_api_key)
           THEN \* "Please enter your Gemini API Key in the sidebar."
                /\ prompt' = None
                /\ calls' = NoCalls
                /\ UNCHANGED <<linkedin_data_str, initial_answers_str, combined_summary,
                               interview_started, messages, gemini_chat, data_processed>>
           ELSE /\ linkedin_data_str' = lds
                /\ initial_answers_str' = FormatAnswers(initial_answers_dict)
                /\ combined_summary' = sm.text
                /\ prompt' = sm.prompt
                /\ calls' = [linkedin_login |-> IF scraped THEN 1 ELSE 0,
                             get_profile |-> IF scraped THEN r.get_profile_calls ELSE 0,
                             generate_content |-> sm.generate_content_calls,
                             send_message |-> 0]
                /\ IF SummaryIsGood(sm.text)
                   THEN IF chat_init = "ok"
                        THEN \* start_chat, the greeting, st.rerun(); the rerun is
                             \* a script-control exception, no Exception, so that
                             \* line 366 does not catch it
                             /\ interview_started' = TRUE
                             /\ data_processed' = TRUE
                             /\ messages' = <<[role |-> "assistant", content |-> GREETING]>>
                             /\ gemini_chat' = "ChatSession"
                        ELSE \* "Error initializing Gemini chat"
                             /\ interview_started' = FALSE
                             /\ data_processed' = FALSE
                             /\ messages' = <<>>
                             /\ UNCHANGED gemini_chat
                   ELSE \* "Could not start interview due to errors in data processing."
                        /\ data_processed' = FALSE
                        /\ UNCHANGED <<interview_started, messages, gemini_chat>>

----------------------------------------------------------------------------
(* The Reset button *)

\* a reset that leaves interview_started in the session
ResetKeysWithoutInterviewStarted ==
    {"cv_text", "linkedin_data_str", "initial_answers_str", "combined_summary",
     "messages", "gemini_chat", "data_processed", "initial_answers_dict"}

\* a reset that leaves the transcript in the session
ResetKeysWithoutMessages ==
    {"cv_text", "linkedin_data_str", "initial_answers_str", "combined_summary",
     "interview_started", "gemini_chat", "data_processed", "initial_answers_dict"}

\* the keys the handler deletes from st.session_state
ResetKeys ==
    {"cv_text", "linkedin_data_str", "initial_answers_str", "combined_summary",
     "interview_started", "messages", "gemini_chat", "data_processed",
     "initial_answers_dict"}

\* del st.session_state[key]; st.rerun(): the run that follows sets every
\* deleted key as at the session start, and then reads the uploader again
ClickReset ==
    /\ data_processed       \* `if st.session_state.data_processed and st.button(...)`
    /\ cv_text' = CvAfterUpload(IF "cv_text" \in ResetKeys THEN None ELSE cv_text,
                                uploaded_cv)
    /\ linkedin_data_str' = IF "linkedin_data_str" \in ResetKeys THEN None
                            ELSE linkedin_data_str
    /\ initial_answers_str' = IF "initial_answers_str" \in ResetKeys THEN EmptyStr
                              ELSE initial_answers_str
    /\ combined_summary' = IF "combined_summary" \in ResetKeys THEN EmptyStr
                           ELSE combined_summary
    /\ interview_started' = IF "interview_started" \in ResetKeys THEN FALSE
                            ELSE interview_started
    /\ messages' = IF "messages" \in ResetKeys THEN <<>> ELSE messages
    /\ gemini_chat' = IF "gemini_chat" \in ResetKeys THEN "None" ELSE gemini_chat
    /\ data_processed' = IF "data_processed" \in ResetKeys THEN FALSE ELSE data_processed
    /\ initial_answers_dict' = IF "initial_answers_dict" \in ResetKeys THEN EmptyAnswers
                               ELSE initial_answers_dict
    /\ last' = "reset"
    /\ prompt' = None
    /\ calls' = NoCalls
    /\ UNCHANGED <<gemini_api_key, linkedin_email, linkedin_password, linkedin_url,
                   uploaded_cv, harness>>

----------------------------------------------------------------------------
(* The chat input *)

UserMessage(text) == [role |-> "user", content |-> text]
AssistantMessage(text) == [role |-> "assistant", content |-> text]

\* a chat turn that records nothing when send_message raises
TranscriptWithoutErrorEntry(msgs, text, reply) ==
    IF reply = <<"raises">>
    THEN Append(msgs, UserMessage(text))
    ELSE Append(Append(msgs, UserMessage(text)), AssistantMessage(reply))

\* lines 409-427: the transcript after the turn; reply is what the stream of
\* send_message adds up to, or <<"raises">>
TranscriptAfterTurn(msgs, text, reply) ==
    Append(Append(msgs, UserMessage(text)),
           AssistantMessage(IF reply = <<"raises">>
                            THEN <<"An error occurred with the Gemini API: ">> \o ExcText
                            ELSE reply))

UserTurns(msgs) == Cardinality({i \in 1..Len(msgs) : msgs[i].role = "user"})

ChatTurn ==
    /\ interview_started /\ gemini_chat # "None"    \* line 401
    /\ UserTurns(messages) < MaxTurns
    /\ \E text \in ChatTexts, reply \in SendOutcomes :
        /\ messages' = TranscriptAfterTurn(messages, text, reply)
        /\ interview_started' = (reply # <<"raises">>)
    /\ cv_text' = CvAfterUpload(cv_text, uploaded_cv)
    /\ last' = "chat"
    /\ prompt' = None
    /\ calls' = [NoCalls EXCEPT !.send_message = 1]
    /\ UNCHANGED <<gemini_api_key, linkedin_email, linkedin_password, linkedin_url,
                   linkedin_data_str, initial_answers_str, combined_summary,
                   gemini_chat, data_processed, initial_answers_dict, uploaded_cv,
                   harness>>

Next ==
    \/ EditApiKey
    \/ EditEmail
    \/ EditPassword
    \/ EditUrl
    \/ UploadCv
    \/ EditAnswer
    \/ ClickProcess
    \/ ClickReset
    \/ ChatTurn

Spec == Init /\ [][Next]_vars

----------------------------------------------------------------------------
(* The functions called on their own: convert_linkedin_url_to_id *)

SlugChars == {"a", "b"}
Slugs == SeqsUpTo(SlugChars, MaxSlugLen) \ {<<>>}
QueryStrings == {<<>>, <<"?", "q">>}
Slashes == {<<>>, <<"/">>}

\* [http(s)://][www.]linkedin.com/in/<slug>[/][?query]
ProfileUrls ==
    { [form |-> "profile", slug |-> slug, url |-> pre \o slug \o slash \o query] :
        pre \in PrefixPattern, slug \in Slugs, slash \in Slashes, query \in QueryStrings }

\* URLs of other sites and other LinkedIn pages
OtherHosts == { <<"x", ".", "c", "o">>, <<"l", "i", "n", "k", "e", "d", "i", "n", ".", "c", "o", "m">> }
OtherPaths == { <<>>, <<"/", "a">>, <<"/", "p", "u", "b", "/", "a">>, <<"/", "i", "n">> }
OtherUrls ==
    { [form |-> "other", slug |-> <<>>, url |-> scheme \o host \o path \o slash \o query] :
        scheme \in {<<>>, HTTPS}, host \in OtherHosts, path \in OtherPaths,
        slash \in Slashes, query \in QueryStrings }
    \cup { [form |-> "other", slug |-> <<>>, url |-> u] : u \in {<<"a">>, <<"a", "?", "q">>} }

\* no URL, and URLs that hold nothing after the host prefix
NoSlugUrls ==
    {None, EmptyStr, <<"/">>}
    \cup PrefixPattern
    \cup { pre \o <<"/">> : pre \in PrefixPattern }

UrlInputs ==
    ProfileUrls \cup OtherUrls
    \cup { [form |-> "noslug", slug |-> <<>>, url |-> u] : u \in NoSlugUrls }

CallConvert ==
    /\ url_id = NotRun
    /\ scr_ret = ScrNotRun
    /\ url_id' = convert_linkedin_url_to_id(url_in.url)
    /\ UNCHANGED <<session, url_in, login_in, profile_in, scr_ret, pdf_in, pdf_ret>>

InitUrl ==
    /\ InitSession
    /\ url_in \in UrlInputs
    /\ url_id = NotRun
    /\ login_in = "ok"
    /\ profile_in = NoProfile
    /\ scr_ret = ScrNotRun
    /\ pdf_in = NoFile
    /\ pdf_ret = NotRun

NextUrl == CallConvert

SpecUrl == InitUrl /\ [][NextUrl]_vars

----------------------------------------------------------------------------
(* The functions called on their own: linkedin_scrapper *)

HeadlineValues == {<<"Engineer">>, <<"Analyst">>}
SummaryValues == {<<"Builds things.">>, <<"Counts things.">>}
CertificationValues == {<<>>, <<"AWS">>}

DictProfiles ==
    { [kind |-> "dict", has |-> has, extra |-> extra,
       headline |-> IF "headline" \in has THEN h ELSE <<>>,
       summary |-> IF "summary" \in has THEN sm ELSE <<>>,
       skills |-> IF "skills" \in has THEN sk ELSE <<>>,
       certifications |-> IF "certifications" \in has THEN c ELSE <<>>] :
        has \in SUBSET ProfileKeys, extra \in BOOLEAN, h \in HeadlineValues,
        sm \in SummaryValues, sk \in SeqsUpTo(SkillItems, MaxSkills),
        c \in CertificationValues }

\* what api.get_profile may do: return nothing, return a list, raise, or
\* return a dictionary
Profiles ==
    { NoProfile, [NoProfile EXCEPT !.kind = "list"], [NoProfile EXCEPT !.kind = "raises"] }
    \cup DictProfiles

ScrapeUrls ==
    { [form |-> "noslug", slug |-> <<>>, url |-> u] : u \in NoSlugUrls }
    \cup { [form |-> "profile", slug |-> <<"a">>, url |-> u] :
             u \in {GoodUrl, LINKEDIN_IN \o <<"a">>} }

CallScrapper ==
    /\ url_id = NotRun
    /\ scr_ret = ScrNotRun
    /\ scr_ret' = linkedin_scrapper(login_in, url_in.url, profile_in)
    /\ UNCHANGED <<session, url_in, url_id, login_in, profile_in, pdf_in, pdf_ret>>

InitScrape ==
    /\ InitSession
    /\ url_in \in ScrapeUrls
    /\ url_id = NotRun
    /\ login_in \in LoginOutcomes
    /\ profile_in \in Profiles
    /\ scr_ret = ScrNotRun
    /\ pdf_in = NoFile
    /\ pdf_ret = NotRun

NextScrape ==
    \/ CallConvert
    \/ CallScrapper

SpecScrape == InitScrape /\ [][NextScrape]_vars

----------------------------------------------------------------------------
(* The functions called on their own: extract_text_from_cv *)

PagePieces == {"a", "b", "\n"}
PageTexts == SeqsUpTo(PagePieces, MaxPageLen)

Files == {NotPdf, DamagedPdf} \cup { Pdf(pages) : pages \in SeqsUpTo(PageTexts, MaxPages) }

CallExtract ==
    /\ pdf_ret = NotRun
    /\ pdf_ret' = extract_text_from_cv(pdf_in)
    /\ UNCHANGED <<session, url_in, url_id, login_in, profile_in, scr_ret, pdf_in>>

InitPdf ==
    /\ InitSession
    /\ url_in = [form |-> "idle", slug |-> <<>>, url |-> None]
    /\ url_id = NotRun
    /\ login_in = "ok"
    /\ profile_in = NoProfile
    /\ scr_ret = ScrNotRun
    /\ pdf_in \in Files
    /\ pdf_ret = NotRun

NextPdf == CallExtract

SpecPdf == InitPdf /\ [][NextPdf]_vars

----------------------------------------------------------------------------
(* Claims about convert_linkedin_url_to_id (SpecUrl) *)

Converted == url_id # NotRun

\* the URL holds the segment /in/
ContainsIn(u) == \E i \in 1..Len(u) : i + 3 <= Len(u) /\ SubSeq(u, i, i + 3) = <<"/", "i", "n", "/">>

Contains(u, c) == \E i \in 1..Len(u) : u[i] = c

\* the URL up to its query string
RECURSIVE WithoutQuery(_)
WithoutQuery(u) ==
    IF u = <<>> \/ u[1] = "?" THEN <<>> ELSE <<u[1]>> \o WithoutQuery(Tail(u))

\* the text after the last '/'
RECURSIVE LastSegment(_)
LastSegment(u) ==
    IF u = <<>> \/ u[Len(u)] = "/" THEN <<>>
    ELSE LastSegment(SubSeq(u, 1, Len(u) - 1)) \o <<u[Len(u)]>>

\* C1: for every URL [http(s)://][www.]linkedin.com/in/<slug>, with or without
\* a trailing slash and with or without a query string, the conversion returns
\* exactly <slug>.
C1_SlugExtracted ==
    (Converted /\ url_in.form = "profile") => url_id = url_in.slug

\* C2 as stated: for a non-empty URL without an /in/ segment the conversion
\* returns the final path segment, the query string removed.
C2_LastSegmentReturned ==
    (Converted /\ Truthy(url_in.url) /\ ~ContainsIn(url_in.url))
        => url_id = LastSegment(WithoutQuery(url_in.url))

\* C2: for a non-empty URL without an /in/ segment the conversion returns the
\* URL itself, less one trailing slash when it ends with one: no leading part
\* and no query string is removed.
C2_UrlKeptButTrailingSlash ==
    (Converted /\ Truthy(url_in.url) /\ ~ContainsIn(url_in.url))
        => /\ EndsWithSlash(url_in.url) => url_id \o <<"/">> = url_in.url
           /\ ~EndsWithSlash(url_in.url) => url_id = url_in.url

C2_Witness ==
    /\ Converted /\ Truthy(url_in.url) /\ ~ContainsIn(url_in.url)
    /\ Contains(url_in.url, "?")
    /\ LastSegment(WithoutQuery(url_in.url)) # url_in.url
    /\ url_id = url_in.url

----------------------------------------------------------------------------
(* Claims about linkedin_scrapper (SpecScrape) *)

Scraped == scr_ret # ScrNotRun

\* C3 as stated: for no URL and for a URL without a slug the conversion
\* returns "", and linkedin_scrapper returns the pair 'Invalid Profile URL'
\* without calling get_profile.
C3_InvalidUrlPairReturned ==
    /\ (Converted /\ url_in.url \in NoSlugUrls) => url_id = EmptyStr
    /\ (Scraped /\ url_in.url \in NoSlugUrls)
           => /\ scr_ret.status = "Invalid Profile URL"
              /\ scr_ret.get_profile_calls = 0

\* C3: for no URL and for a URL without a slug the conversion returns "";
\* linkedin_scrapper never calls get_profile for such a URL, and returns the
\* pair 'Invalid Profile URL' when the login succeeds (the login is made
\* first: when it raises, the pair is 'Incorrect Credentials or Login Issue').
C3_NoSlugNoFetch ==
    /\ (Converted /\ url_in.url \in NoSlugUrls) => url_id = EmptyStr
    /\ (Scraped /\ url_in.url \in NoSlugUrls)
           => /\ scr_ret.get_profile_calls = 0
              /\ login_in = "ok"
                     => /\ scr_ret.status = "Invalid Profile URL"
                        /\ scr_ret.data = <<"Error: Could not extract profile ID from URL.">>
              /\ login_in = "raises"
                     => scr_ret.status = "Incorrect Credentials or Login Issue"

C3_Witness ==
    /\ Scraped
    /\ url_in.url = HTTPS \o WWW \o LINKEDIN_IN
    /\ profile_in.kind = "dict" /\ profile_in.has = ProfileKeys
    /\ scr_ret.status = "Invalid Profile URL"

\* the profile that get_profile returned, when it was called
Fetched == Scraped /\ scr_ret.get_profile_calls = 1

\* C4 as stated: whenever get_profile returns a dictionary the result is
\* 'Success' with the four pairs in order, every value the stored one
\* unchanged, or the placeholder when the key is absent.
C4_ValuesUnchanged ==
    (Fetched /\ profile_in.kind = "dict")
        => /\ scr_ret.status = "Success"
           /\ Len(scr_ret.data) = 4
           /\ scr_ret.data[1] = <<"headline", IF "headline" \in profile_in.has
                                              THEN profile_in.headline ELSE <<"N/A">> >>
           /\ scr_ret.data[2] = <<"summary", IF "summary" \in profile_in.has
                                             THEN profile_in.summary ELSE <<"N/A">> >>
           /\ scr_ret.data[3] = <<"skills", IF "skills" \in profile_in.has
                                            THEN profile_in.skills ELSE <<>> >>
           /\ scr_ret.data[4] = <<"certifications", IF "certifications" \in profile_in.has
                                                    THEN profile_in.certifications ELSE <<>> >>

AllSkillsAreDicts(p) == \A i \in 1..Len(p.skills) : p.skills[i].is_dict

\* C4: when get_profile returns a non-empty dictionary whose skills, if any,
\* are dictionaries, the result is 'Success' with the four pairs headline,
\* summary, skills, certifications in order; headline, summary and
\* certifications are the stored values unchanged, skills is the list of the
\* skills' names ('N/A' for a skill without one), and an absent key gives
\* 'N/A' (headline, summary) or the empty list (skills, certifications).
C4_KeyedExtraction ==
    (/\ Fetched /\ profile_in.kind = "dict"
     /\ (profile_in.has # {} \/ profile_in.extra)
     /\ AllSkillsAreDicts(profile_in))
        => /\ scr_ret.status = "Success"
           /\ Len(scr_ret.data) = 4
           /\ scr_ret.data[1] = <<"headline", IF "headline" \in profile_in.has
                                              THEN profile_in.headline ELSE <<"N/A">> >>
           /\ scr_ret.data[2] = <<"summary", IF "summary" \in profile_in.has
                                             THEN profile_in.summary ELSE <<"N/A">> >>
           /\ scr_ret.data[3][1] = "skills"
           /\ Len(scr_ret.data[3][2]) = Len(profile_in.skills)
           /\ \A i \in 1..Len(profile_in.skills) :
                 scr_ret.data[3][2][i] =
                     Str(IF profile_in.skills[i].has_name
                         THEN profile_in.skills[i].name ELSE "N/A")
           /\ scr_ret.data[4] = <<"certifications", IF "certifications" \in profile_in.has
                                                    THEN profile_in.certifications ELSE <<>> >>

C4_Witness ==
    /\ Fetched /\ profile_in.kind = "dict"
    /\ profile_in.has = {"headline", "skills"}
    /\ Len(profile_in.skills) = MaxSkills
    /\ profile_in.skills[1].has_name /\ ~profile_in.skills[2].has_name
    /\ scr_ret.status = "Success"
    /\ scr_ret.data[2][2] = <<"N/A">>

----------------------------------------------------------------------------
(* Claims about extract_text_from_cv (SpecPdf) *)

Extracted == pdf_ret # NotRun

\* where the text of page i starts in the joined text, less one
RECURSIVE PageOffset(_, _)
PageOffset(pages, i) ==
    IF i = 1 THEN 0 ELSE PageOffset(pages, i - 1) + Len(pages[i - 1]) + 1

\* C5: for a readable PDF the result is the page texts in page order with
\* exactly one newline between consecutive pages, none before the first or
\* after the last, and "" for no pages; for bytes that do not open as a PDF
\* the result is a string starting with 'Error reading PDF'.
C5_PagesJoinedByNewline ==
    Extracted =>
        /\ pdf_in.kind = "pdf" =>
             LET pages == pdf_in.pages
                 n == Len(pages)
             IN /\ n = 0 => pdf_ret = EmptyStr
                /\ n > 0 => Len(pdf_ret) = PageOffset(pages, n) + Len(pages[n])
                /\ \A i \in 1..n :
                     SubSeq(pdf_ret, PageOffset(pages, i) + 1,
                            PageOffset(pages, i) + Len(pages[i])) = pages[i]
                /\ \A i \in 1..(n - 1) :
                     pdf_ret[PageOffset(pages, i) + Len(pages[i]) + 1] = "\n"
        /\ pdf_in.kind = "notpdf" => StartsWith(pdf_ret, <<"Error reading PDF: ">>)

C5_Witness ==
    /\ Extracted
    /\ pdf_in.kind = "pdf"
    /\ Len(pdf_in.pages) = MaxPages
    /\ pdf_in.pages[1] = <<"a">> /\ pdf_in.pages[2] = <<>>
    /\ pdf_ret[Len(pdf_ret)] # "\n"

----------------------------------------------------------------------------
(* Claims about the page (Spec) *)

\* the summary step has just run: Process was clicked with an API key
SummaryStepRan == last = "process" /\ Truthy(gemini_api_key)

LinkedinDetailsProvided ==
    Truthy(linkedin_url) /\ Truthy(linkedin_email) /\ Truthy(linkedin_password)

ConfigureFailed == StartsWith(combined_summary, <<"Error configuring Gemini: ">>)
GenerateFailed == StartsWith(combined_summary, <<"Error generating summary with Gemini: ">>)

\* line 401: the chat section runs and offers st.chat_input
ChatInputOffered == interview_started /\ gemini_chat # "None"

\* C6: when the summary step runs with an API key, no CV and no LinkedIn
\* details (and Gemini can be configured), the stored summary is the sentinel
\* 'No CV or LinkedIn data provided to summarize.' and generate_content is not
\* called.
C6_NothingToSummarize ==
    (/\ SummaryStepRan
     /\ uploaded_cv = NoFile /\ ~Truthy(cv_text)
     /\ ~LinkedinDetailsProvided
     /\ ~ConfigureFailed)
        => /\ combined_summary = NO_DATA
           /\ calls.generate_content = 0

\* the text that follows `header` in the prompt starts with `piece`
PromptSectionStartsWith(header, piece) ==
    /\ prompt # None
    /\ \E i \in 1..(Len(prompt) - 1) : prompt[i] = header /\ prompt[i + 1] = piece

\* C7: a failed LinkedIn fetch or PDF extraction leaves linkedin_data_str or
\* cv_text empty or unset, so that no failure message is sent to the
\* summarizer as LinkedIn Data or as CV Data.
C7_FailureLeavesInputEmpty ==
    /\ ~StartsWith(linkedin_data_str, <<"Error fetching LinkedIn data: ">>)
    /\ ~StartsWith(cv_text, <<"Error reading PDF: ">>)
    /\ ~PromptSectionStartsWith(LINKEDIN_HEADER, "Error fetching LinkedIn data: ")
    /\ ~PromptSectionStartsWith(CV_HEADER, "Error reading PDF: ")

\* C8: a Process whose summary generation fails (Gemini cannot be configured,
\* or generate_content raises) ends with interview_started and data_processed
\* False, creates no chat object, leaves the transcript as it was and offers
\* no chat input.
C8_FailedSummaryStartsNothing ==
    [][ (SummaryStepRan' /\ (ConfigureFailed' \/ GenerateFailed'))
            => /\ ~interview_started'
               /\ ~data_processed'
               /\ gemini_chat' = gemini_chat /\ gemini_chat' = "None"
               /\ messages' = messages
               /\ ~ChatInputOffered' ]_vars

C8_Witness ==
    /\ SummaryStepRan
    /\ GenerateFailed
    /\ calls.generate_content = 1
    /\ ~data_processed /\ ~interview_started /\ gemini_chat = "None"

\* the transcript starts with the greeting, holds only the two roles, and
\* alternates assistant, user, assistant, ..., ending with an assistant entry
TranscriptShape ==
    /\ \A i \in 1..Len(messages) :
          messages[i].role = (IF i % 2 = 1 THEN "assistant" ELSE "user")
    /\ data_processed
          => /\ Len(messages) % 2 = 1
             /\ messages[1] = [role |-> "assistant", content |-> GREETING]

\* between a Process that succeeded and the Reset, a step keeps every entry
\* and adds nothing or one user entry and one assistant entry
AppendOnly ==
    (data_processed /\ data_processed')
        => /\ Len(messages') \in {Len(messages), Len(messages) + 2}
           /\ SubSeq(messages', 1, Len(messages)) = messages

\* C9: between a successful Process and the next Reset the transcript is
\* append-only, its roles are 'user' and 'assistant', it starts with the
\* assistant greeting, and every user entry is followed by exactly one
\* assistant entry (the reply or the API error message).
C9_TranscriptAppendOnly == []TranscriptShape /\ [][AppendOnly]_vars

C9_Witness ==
    /\ data_processed
    /\ ~interview_started
    /\ Len(messages) = 2 * MaxTurns + 1
    /\ messages[Len(messages)].content = <<"An error occurred with the Gemini API: ">> \o ExcText
    /\ messages[3].content = <<"A reply.">>

\* the fields that Reset returns to their value at the session start, but
\* for cv_text
ResetFieldsAtStart ==
    /\ linkedin_data_str' = None
    /\ initial_answers_str' = EmptyStr
    /\ combined_summary' = EmptyStr
    /\ interview_started' = FALSE
    /\ messages' = <<>>
    /\ gemini_chat' = "None"
    /\ data_processed' = FALSE
    /\ initial_answers_dict' = EmptyAnswers

\* C10 as stated: Reset is offered only when data_processed, and returns every
\* workflow field, cv_text included, to its value at the session start, the
\* API key, the LinkedIn email, password and URL unchanged.
C10_ResetRestoresEveryField ==
    [][ last' = "reset"
            => /\ data_processed
               /\ cv_text' = None
               /\ ResetFieldsAtStart
               /\ UNCHANGED <<gemini_api_key, linkedin_email, linkedin_password,
                              linkedin_url>> ]_vars

\* C10: Reset is offered only when data_processed, and returns every workflow
\* field to its value at the session start, the API key, the LinkedIn email,
\* password and URL unchanged; but cv_text is None only when the uploader
\* holds no file: the run that follows the reset extracts the text of the
\* file that the uploader still holds.
C10_ResetRestoresFieldsButCv ==
    [][ last' = "reset"
            => /\ data_processed
               /\ uploaded_cv.kind = "nofile" => cv_text' = None
               /\ uploaded_cv.kind = "notpdf" => StartsWith(cv_text', <<"Error reading PDF: ">>)
               /\ uploaded_cv.kind = "pdf" => cv_text' = JoinNewline(uploaded_cv.pages)
               /\ ResetFieldsAtStart
               /\ UNCHANGED <<gemini_api_key, linkedin_email, linkedin_password,
                              linkedin_url>> ]_vars

C10_Witness ==
    /\ last = "reset"
    /\ uploaded_cv = Pdf(<< <<"cv">> >>) /\ cv_text = <<"cv">>
    /\ gemini_api_key = <<"key">> /\ linkedin_url = GoodUrl
    /\ linkedin_email # EmptyStr /\ linkedin_password # EmptyStr
    /\ messages = <<>> /\ ~data_processed

\* no summary is requested and LinkedIn is not contacted in the page run
NoSummaryNoFetch ==
    /\ calls.generate_content = 0
    /\ calls.linkedin_login = 0
    /\ calls.get_profile = 0

\* C11: a Process action requests the summary from generate_content at most
\* once, also when the request fails; and from a state with data_processed
\* True no page run is a Process, and none requests a summary or logs in to
\* or fetches from LinkedIn, until Reset has made data_processed False.
C11_SummaryRequestedOnce ==
    /\ [](calls.generate_content <= 1)
    /\ [][ data_processed => NoSummaryNoFetch' ]_vars
    /\ [][ (data_processed /\ last' = "process") => FALSE ]_vars

C11_Witness ==
    /\ data_processed
    /\ last = "chat"
    /\ Truthy(gemini_api_key) /\ LinkedinDetailsProvided
    /\ StartsWith(linkedin_data_str, <<"Error fetching LinkedIn data: ">>)
    /\ NoSummaryNoFetch

----------------------------------------------------------------------------
(* Claims about the page after a chat turn has failed *)

\* line 278: the Process button takes a click
ProcessEnabled == ENABLED ClickProcess

\* C12: in every state with data_processed True and interview_started False
\* (an API error in a chat turn has stopped the interview), Process can be
\* clicked without a Reset first.
C12_ProcessEnabledAfterChatError ==
    (data_processed /\ ~interview_started) => ProcessEnabled

----------------------------------------------------------------------------
(* Claims about the interview flag *)

\* what a Process that succeeded leaves in the session
ProducedBySuccessfulProcess ==
    /\ data_processed
    /\ gemini_chat # "None"
    /\ \A i \in 1..Len(combined_summary) : combined_summary[i] \notin ErrorPieces
    /\ messages # <<>>

\* C13: at the end of every page run, interview_started implies that
\* data_processed is True, gemini_chat is not None, combined_summary holds no
\* 'Error' and messages is not empty; and a chat turn is only taken from such
\* a state.
C13_InterviewOnlyAfterSuccess ==
    /\ [](interview_started => ProducedBySuccessfulProcess)
    /\ [][ last' = "chat" => (interview_started /\ ProducedBySuccessfulProcess) ]_vars

C13_Witness ==
    /\ interview_started
    /\ last = "chat"
    /\ Len(messages) = 3
    /\ data_processed /\ gemini_chat = "ChatSession"
    /\ combined_summary = <<"A summary.">>

====
